---- MODULE Spec2Model ----
(***************************************************************************)
(* WyRand pseudo-random number generator (rand-wyrand, src/lib.rs).         *)
(*                                                                         *)
(* Number representation.  TLC integers are 32 bits wide, so a u64 is a    *)
(* tuple of four 16-bit limbs, least significant limb first, a u128 is a   *)
(* tuple of eight such limbs and a u32 a tuple of two.  A byte buffer is a *)
(* sequence of integers 0..255.  All 64 (128, 32) bits are kept: additions *)
(* carry from limb to limb and drop the carry out of the top limb,         *)
(* multiplication is done column by column over bytes.                     *)
(*                                                                         *)
(* Where a value is used more than once it is bound by x \in {e}, which    *)
(* evaluates e once; Only picks the element of the resulting singleton.    *)
(***************************************************************************)
EXTENDS Integers, Sequences, FiniteSets, TLC

(* Largest buffer length passed to fill_bytes / try_fill_bytes. *)
MaxLen == 13

(* Largest number of calls made in one behaviour. *)
MaxCalls == 2

\* the element of a singleton set
Only(S) == CHOOSE x \in S : TRUE

----------------------------------------------------------------------------
(* Fixed-width arithmetic *)

RECURSIVE XorBits(_, _, _)
\* bitwise exclusive or of two values below 2^bits
XorBits(x, y, bits) ==
    IF bits = 0 THEN 0
    ELSE ((x + y) % 2) + 2 * XorBits(x \div 2, y \div 2, bits - 1)

\* `^` on two unsigned integers of the same width
xor(a, b) == [i \in 1..Len(a) |-> XorBits(a[i], b[i], 16)]

RECURSIVE AddCarry(_, _, _, _)
\* limbs i..Len(a) of a + b + carry, the carry out of the top limb dropped
AddCarry(a, b, i, carry) ==
    IF i > Len(a) THEN <<>>
    ELSE LET s == a[i] + b[i] + carry
         IN  <<s % 65536>> \o AddCarry(a, b, i + 1, s \div 65536)

\* u64::wrapping_add
wrapping_add(a, b) == AddCarry(a, b, 1, 0)

\* the little-endian bytes of an unsigned integer of any width
Bytes(a) ==
    [i \in 1..(2 * Len(a)) |->
        IF i % 2 = 1 THEN a[(i + 1) \div 2] % 256 ELSE a[i \div 2] \div 256]

\* the unsigned integer whose little-endian bytes are b (Len(b) even)
Limbs(b) == [i \in 1..(Len(b) \div 2) |-> b[2 * i - 1] + 256 * b[2 * i]]

RECURSIVE ColumnSum(_, _, _, _)
\* sum of A[i] * B[k + 1 - i] over the i from..Len(A) for which B has that byte
ColumnSum(A, B, k, from) ==
    IF from > Len(A) \/ from > k THEN 0
    ELSE (IF k + 1 - from <= Len(B) THEN A[from] * B[k + 1 - from] ELSE 0)
         + ColumnSum(A, B, k, from + 1)

RECURSIVE MulColumns(_, _, _, _, _)
\* bytes k..width of the product of the byte strings A and B, given the carry
\* into column k; what does not fit in width bytes is dropped
MulColumns(A, B, k, carry, width) ==
    IF k > width THEN <<>>
    ELSE LET s == ColumnSum(A, B, k, 1) + carry
         IN  <<s % 256>> \o MulColumns(A, B, k + 1, s \div 256, width)

\* u128::wrapping_mul: the product modulo 2^128
wrapping_mul(a, b) ==
    Only({ Limbs(MulColumns(A, B, 1, 0, 16)) : A \in {Bytes(a)}, B \in {Bytes(b)} })

\* `as u128` on a u64: zero extension
as_u128(a) == a \o <<0, 0, 0, 0>>

\* `as u64` on a u128: the low 64 bits
as_u64(t) == SubSeq(t, 1, 4)

\* `as u32` on a u64: the low 32 bits
as_u32(a) == SubSeq(a, 1, 2)

\* u128::wrapping_shr(n) for n a multiple of 16: the shift amount is taken
\* modulo 128, the vacated high limbs are zero
wrapping_shr(t, n) ==
    LET k == (n % 128) \div 16
    IN  [i \in 1..8 |-> IF i + k <= 8 THEN t[i + k] ELSE 0]

\* 0xa0761d6478bd642f
WyAdd == <<25647, 30909, 7524, 41078>>

\* 0xe7037ed1a0b428db
WyXor == <<10459, 41140, 32465, 59139>>

----------------------------------------------------------------------------
(* The generator: struct WyRand { seed: u64 } *)

\* next_u64 with the product taken at 64-bit width: the high half is lost
next_u64_narrow(self) ==
    Only({ Only({ [self  |-> [seed |-> seed],
                   value |-> as_u64(xor(wrapping_shr(t, 64), t))] :
                  t \in {as_u128(as_u64(wrapping_mul(as_u128(seed),
                                                     as_u128(xor(seed, WyXor)))))} }) :
           seed \in {wrapping_add(self.seed, WyAdd)} })

\* <WyRand as RngCore>::next_u64: the state after the call and the word returned
next_u64(self) ==
    Only({ Only({ [self  |-> [seed |-> seed],
                   value |-> as_u64(xor(wrapping_shr(t, 64), t))] :
                  t \in {wrapping_mul(as_u128(seed), as_u128(xor(seed, WyXor)))} }) :
           seed \in {wrapping_add(self.seed, WyAdd)} })

\* next_u32 returning the low 32 bits of the advanced state instead of the output
next_u32_state(self) ==
    Only({ [self |-> r.self, value |-> as_u32(r.self.seed)] : r \in {next_u64(self)} })

\* next_u32 with an algorithm of its own that steps the generator twice
next_u32_twice(self) ==
    Only({ [self |-> r.self, value |-> as_u32(r.value)] :
           r \in {next_u64(next_u64(self).self)} })

\* next_u32 returning the high 32 bits of the 64-bit output
next_u32_high(self) ==
    Only({ [self |-> r.self, value |-> SubSeq(r.value, 3, 4)] : r \in {next_u64(self)} })

\* <WyRand as RngCore>::next_u32
next_u32(self) ==
    Only({ [self |-> r.self, value |-> as_u32(r.value)] : r \in {next_u64(self)} })

\* u64::to_le_bytes and u32::to_le_bytes
to_le_bytes(v) == Bytes(v)

\* u64::from_le_bytes
from_le_bytes(b) == Limbs(b)

\* u64::from_be_bytes
from_be_bytes(b) == Limbs([i \in 1..Len(b) |-> b[Len(b) + 1 - i]])

RECURSIVE fill_bytes_via_next(_, _)
\* rand_core::impls::fill_bytes_via_next: whole 8-byte chunks take a 64-bit word
\* each; a remainder of 5..7 bytes takes one more 64-bit word, a remainder of
\* 1..4 bytes one 32-bit word; each chunk is copied over dest
fill_bytes_via_next(rng, dest) ==
    LET n == Len(dest)
    IN  IF n >= 8
        THEN Only({ Only({ [self |-> rest.self,
                            dest |-> to_le_bytes(r.value) \o rest.dest] :
                           rest \in {fill_bytes_via_next(r.self, SubSeq(dest, 9, n))} }) :
                    r \in {next_u64(rng)} })
        ELSE IF n > 4
        THEN Only({ [self |-> r.self, dest |-> SubSeq(to_le_bytes(r.value), 1, n)] :
                    r \in {next_u64(rng)} })
        ELSE IF n > 0
        THEN Only({ [self |-> r.self, dest |-> SubSeq(to_le_bytes(r.value), 1, n)] :
                    r \in {next_u32(rng)} })
        ELSE [self |-> rng, dest |-> dest]

\* <WyRand as RngCore>::fill_bytes
fill_bytes(self, dest) == fill_bytes_via_next(self, dest)

\* try_fill_bytes that reports success without filling
try_fill_bytes_noop(self, dest) ==
    [self |-> self, dest |-> dest, result |-> "Ok"]

\* <WyRand as RngCore>::try_fill_bytes
try_fill_bytes(self, dest) ==
    Only({ [self |-> r.self, dest |-> r.dest, result |-> "Ok"] :
           r \in {fill_bytes(self, dest)} })

\* seed_from_u64 that replaces a zero seed by the additive constant
seed_from_u64_nonzero(state) ==
    [seed |-> IF state = <<0, 0, 0, 0>> THEN WyAdd ELSE state]

\* <WyRand as SeedableRng>::seed_from_u64
seed_from_u64(state) == [seed |-> state]

\* from_seed reading the seed bytes most significant byte first
from_seed_be(seed) == seed_from_u64(from_be_bytes(seed))

\* <WyRand as SeedableRng>::from_seed
from_seed(seed) == seed_from_u64(from_le_bytes(seed))

\* R::next_u64 of the source handed to from_rng: a WyRand source returns a word,
\* a source that cannot produce its draw panics
source_next_u64(src) ==
    IF src.kind = "WyRand"
    THEN Only({ [panic |-> FALSE, src |-> [kind |-> "WyRand", self |-> r.self],
                  value |-> r.value] : r \in {next_u64(src.self)} })
    ELSE [panic |-> TRUE, src |-> src, payload |-> src.payload]

\* from_rng that discards a first draw and seeds from the second
from_rng_twice(src) ==
    Only({ IF d.panic
           THEN [outcome |-> "panic", payload |-> d.payload, src |-> d.src]
           ELSE [outcome |-> "Ok", value |-> seed_from_u64(d.value), src |-> d.src] :
           d \in {source_next_u64(source_next_u64(src).src)} })

\* <WyRand as SeedableRng>::from_rng: the outcome and the source after the call
from_rng(src) ==
    Only({ IF d.panic
           THEN [outcome |-> "panic", payload |-> d.payload, src |-> d.src]
           ELSE [outcome |-> "Ok", value |-> seed_from_u64(d.value), src |-> d.src] :
           d \in {source_next_u64(src)} })

\* core::fmt::DebugTuple: the name, then the fields in parentheses if any
debug_tuple_finish(name, fields) ==
    IF fields = <<>> THEN <<name>> ELSE <<name, "(">> \o fields \o <<")">>

\* Debug that renders the state word as a field
fmt_leaky(self) == debug_tuple_finish("WyRand", <<self.seed>>)

\* <WyRand as Debug>::fmt: the tokens written to the formatter
fmt(self) == debug_tuple_finish("WyRand", <<>>)

----------------------------------------------------------------------------
(* Inputs *)

\* the 64-bit seeds given to seed_from_u64: 0, 12345 (tests::serde_tokens),
\* 2^64 - 1 and 0x0123456789abcdef
Seeds ==
    { <<0, 0, 0, 0>>, <<12345, 0, 0, 0>>, <<65535, 65535, 65535, 65535>>,
      <<52719, 35243, 17767, 291>> }

\* the 8-byte seeds given to from_seed: all zero (tests::no_leaking_debug)
\* and the bytes 0x01 .. 0x08
SeedBytes ==
    { <<0, 0, 0, 0, 0, 0, 0, 0>>, <<1, 2, 3, 4, 5, 6, 7, 8>>,
      <<57, 48, 0, 0, 0, 0, 0, 0>> }

\* the buffers given to fill_bytes and try_fill_bytes: zeroed, of every length
\* up to MaxLen
Buffers == {[i \in 1..n |-> 0] : n \in 0..MaxLen}

\* the sources given to from_rng
Upstreams ==
    { [kind |-> "WyRand", self |-> [seed |-> <<0, 0, 0, 0>>]],
      [kind |-> "WyRand", self |-> [seed |-> <<65535, 65535, 65535, 65535>>]],
      [kind |-> "Failing", payload |-> "entropy unavailable"] }

----------------------------------------------------------------------------
(* State *)

VARIABLES
    rng,    \* the generator
    op,     \* the last operation performed
    arg,    \* its argument
    pre,    \* the generator before it
    ret,    \* its return value
    dest,   \* the buffer after it
    other,  \* the source passed to from_rng, after it
    seed0,  \* the value the generator was seeded with
    k,      \* the 64-bit words the generator is specified to have produced
    ctor,   \* the operation that constructed the generator
    calls   \* the number of operations performed

vars == <<rng, op, arg, pre, ret, dest, other, seed0, k, ctor, calls>>

Init ==
    \E s \in Seeds :
        /\ rng = seed_from_u64(s)
        /\ op = "init"
        /\ arg = s
        /\ pre = seed_from_u64(s)
        /\ ret = <<>>
        /\ dest = <<>>
        /\ other = [kind |-> "None"]
        /\ seed0 = s
        /\ k = 0
        /\ ctor = "seed_from_u64"
        /\ calls = 0

NextU64 ==
    /\ calls < MaxCalls
    /\ \E r \in {next_u64(rng)} :
           /\ rng' = r.self
           /\ ret' = r.value
    /\ op' = "next_u64"
    /\ arg' = <<>>
    /\ pre' = rng
    /\ k' = k + 1
    /\ calls' = calls + 1
    /\ UNCHANGED <<dest, other, seed0, ctor>>

NextU32 ==
    /\ calls < MaxCalls
    /\ \E r \in {next_u32(rng)} :
           /\ rng' = r.self
           /\ ret' = r.value
    /\ op' = "next_u32"
    /\ arg' = <<>>
    /\ pre' = rng
    /\ k' = k + 1
    /\ calls' = calls + 1
    /\ UNCHANGED <<dest, other, seed0, ctor>>

FillBytes ==
    /\ calls < MaxCalls
    /\ \E buf \in Buffers : \E r \in {fill_bytes(rng, buf)} :
            /\ rng' = r.self
            /\ dest' = r.dest
            /\ arg' = buf
            /\ k' = k + (Len(buf) + 7) \div 8
    /\ op' = "fill_bytes"
    /\ ret' = <<>>
    /\ pre' = rng
    /\ calls' = calls + 1
    /\ UNCHANGED <<other, seed0, ctor>>

TryFillBytes ==
    /\ calls < MaxCalls
    /\ \E buf \in Buffers : \E r \in {try_fill_bytes(rng, buf)} :
            /\ rng' = r.self
            /\ dest' = r.dest
            /\ ret' = r.result
            /\ arg' = buf
            /\ k' = k + (Len(buf) + 7) \div 8
    /\ op' = "try_fill_bytes"
    /\ pre' = rng
    /\ calls' = calls + 1
    /\ UNCHANGED <<other, seed0, ctor>>

SeedFromU64 ==
    /\ calls < MaxCalls
    /\ \E s \in Seeds :
        /\ rng' = seed_from_u64(s)
        /\ arg' = s
        /\ seed0' = s
    /\ op' = "seed_from_u64"
    /\ ctor' = "seed_from_u64"
    /\ ret' = rng'
    /\ pre' = rng
    /\ k' = 0
    /\ calls' = calls + 1
    /\ UNCHANGED <<dest, other>>

FromSeed ==
    /\ calls < MaxCalls
    /\ \E b \in SeedBytes :
        /\ rng' = from_seed(b)
        /\ arg' = b
    /\ op' = "from_seed"
    /\ ctor' = "from_seed"
    /\ ret' = rng'
    /\ seed0' = rng'.seed
    /\ pre' = rng
    /\ k' = 0
    /\ calls' = calls + 1
    /\ UNCHANGED <<dest, other>>

FromRng ==
    /\ calls < MaxCalls
    /\ \E src \in Upstreams : \E r \in {from_rng(src)} :
            /\ arg' = src
            /\ other' = r.src
            /\ ret' = r
            /\ IF r.outcome = "Ok"
               THEN /\ rng' = r.value
                    /\ seed0' = r.value.seed
                    /\ ctor' = "from_rng"
                    /\ k' = 0
               ELSE UNCHANGED <<rng, seed0, ctor, k>>
    /\ op' = "from_rng"
    /\ pre' = rng
    /\ calls' = calls + 1
    /\ UNCHANGED <<dest>>

Fmt ==
    /\ calls < MaxCalls
    /\ ret' = fmt(rng)
    /\ op' = "fmt"
    /\ arg' = <<>>
    /\ pre' = rng
    /\ calls' = calls + 1
    /\ UNCHANGED <<rng, dest, other, seed0, k, ctor>>

Next ==
    \/ NextU64
    \/ NextU32
    \/ FillBytes
    \/ TryFillBytes
    \/ SeedFromU64
    \/ FromSeed
    \/ FromRng
    \/ Fmt

Spec == Init /\ [][Next]_vars

----------------------------------------------------------------------------
(* Reference arithmetic for the properties, computed another way than the  *)
(* generator's: multiplication by Horner's rule over the bytes of one      *)
(* factor, most significant byte first, at the full width of the product.  *)

\* byte b (0 = least significant) of an unsigned integer
ByteOf(v, b) == (v[(b \div 2) + 1] \div (IF b % 2 = 0 THEN 1 ELSE 256)) % 256

RECURSIVE ScaleAddCarry(_, _, _, _, _)
\* limbs i..Len(x) of x * c + y + carry for c <= 256, modulo 2^(16 * Len(x))
ScaleAddCarry(x, c, y, i, carry) ==
    IF i > Len(x) THEN <<>>
    ELSE Only({ <<s % 65536>> \o ScaleAddCarry(x, c, y, i + 1, s \div 65536) :
                s \in {x[i] * c + y[i] + carry} })

\* (s + j * 0xa0761d6478bd642f) mod 2^64
RefAdvance(s, j) == ScaleAddCarry(WyAdd, j, s, 1, 0)

RECURSIVE RefHorner(_, _, _, _)
\* acc * 256^j + a * (the low j bytes of b), over eight limbs
RefHorner(a, b, j, acc) ==
    IF j = 0 THEN acc
    ELSE Only({ RefHorner(a, b, j - 1, ScaleAddCarry(a, ByteOf(b, j - 1), sh, 1, 0)) :
                sh \in {ScaleAddCarry(acc, 256, <<0, 0, 0, 0, 0, 0, 0, 0>>, 1, 0)} })

\* the 128-bit product of two 64-bit values
RefProduct(a, b) ==
    RefHorner(a \o <<0, 0, 0, 0>>, b, 8, <<0, 0, 0, 0, 0, 0, 0, 0>>)

\* the word WyRand returns once its state has become s1:
\* (high half of t) XOR (low half of t) for t = s1 * (s1 XOR 0xe7037ed1a0b428db)
RefWord(s1) ==
    Only({ xor(SubSeq(t, 5, 8), SubSeq(t, 1, 4)) :
           t \in {RefProduct(s1, xor(s1, WyXor))} })

\* the j-th word (from 0) of the stream of a generator in state s
RefWordAt(s, j) == RefWord(RefAdvance(s, j + 1))

\* the little-endian encoding of a 64-bit value
LeEncoding(s) == [i \in 1..8 |-> ByteOf(s, i - 1)]

----------------------------------------------------------------------------
(* Properties *)

\* C1: next_u64 sets the state to s' = (s + 0xa0761d6478bd642f) mod 2^64 and
\* returns (t >> 64) XOR t truncated to 64 bits, where t is the full 128-bit
\* product s' * (s' XOR 0xe7037ed1a0b428db).
C1_NextU64Transition ==
    op = "next_u64" =>
        \E s1 \in {RefAdvance(pre.seed, 1)} :
            /\ rng.seed = s1
            /\ ret = RefWord(s1)

\* a next_u64 call on state 2^64 - 1: the addition wraps and the word returned
\* is 0xba1dc814e82d5d44
C1_Witness ==
    /\ op = "next_u64"
    /\ pre.seed = <<65535, 65535, 65535, 65535>>
    /\ rng.seed = <<25646, 30909, 7524, 41078>>
    /\ ret = <<23876, 59437, 51220, 47645>>

\* C2: next_u32 returns the low 32 bits of what next_u64 returns from the same
\* pre-call state and leaves the generator in the state one next_u64 call
\* leaves it in.
C2_NextU32Truncation ==
    op = "next_u32" =>
        \E r \in {next_u64(pre)} :
            /\ rng = r.self
            /\ Len(ret) = 2
            /\ \A b \in 0..3 : ByteOf(ret, b) = ByteOf(r.value, b)

\* a next_u32 call on state 0 returning 0x8f59a58e, the low half of
\* 0x111cb3a78f59a58e
C2_Witness ==
    /\ op = "next_u32"
    /\ pre.seed = <<0, 0, 0, 0>>
    /\ ret = <<42382, 36697>>

\* C3: fill_bytes on a buffer of length n advances the generator by exactly
\* ceil(n / 8) transition steps; for n = 0 the state is unchanged.
C3_FillBytesSteps ==
    op = "fill_bytes" =>
        /\ rng.seed = RefAdvance(pre.seed, (Len(arg) + 7) \div 8)
        /\ Len(arg) = 0 => rng = pre

\* a fill of 11 bytes (one whole word and a remainder of 3) that took two steps
C3_Witness ==
    /\ op = "fill_bytes"
    /\ Len(arg) = 11
    /\ rng.seed = RefAdvance(pre.seed, 2)
    /\ rng # pre

\* C4: after fill_bytes(dest), byte i of dest is byte (i mod 8) of the
\* little-endian encoding of the floor(i / 8)-th word of the stream from the
\* pre-call state; a final partial chunk holds the low-order bytes of the next
\* word and every byte of dest is written.
C4_FillBytesContent ==
    op = "fill_bytes" =>
        /\ Len(dest) = Len(arg)
        /\ \A j \in 0..((Len(arg) + 7) \div 8 - 1) :
               \E w \in {RefWordAt(pre.seed, j)} :
                   \A b \in 0..7 :
                       8 * j + b < Len(arg) => dest[8 * j + b + 1] = ByteOf(w, b)

\* a fill of 3 bytes from state 0: the three low-order bytes of
\* 0x111cb3a78f59a58e
C4_Witness ==
    /\ op = "fill_bytes"
    /\ pre.seed = <<0, 0, 0, 0>>
    /\ arg = <<0, 0, 0>>
    /\ dest = <<142, 165, 89>>

\* C6: from_seed(b) has state b[0] + 256 * b[1] + ... + 256^7 * b[7], and
\* from_seed of the little-endian encoding of s equals seed_from_u64(s).
C6_SeedRoundTrip ==
    op = "from_seed" =>
        /\ Len(rng.seed) = 4
        /\ \A i \in 0..7 : ByteOf(rng.seed, i) = arg[i + 1]
        /\ \A s \in Seeds : arg = LeEncoding(s) => rng = seed_from_u64(s)

\* from_seed of the little-endian encoding of 12345
C6_Witness ==
    /\ op = "from_seed"
    /\ arg = LeEncoding(<<12345, 0, 0, 0>>)
    /\ rng.seed = <<12345, 0, 0, 0>>

\* C7: from_rng draws exactly one 64-bit word from the source, advancing it by
\* one next_u64 step, and returns a generator whose state is that word; it
\* fails if and only if the source fails to produce the word, with the
\* source's failure.
C7_FromRng ==
    op = "from_rng" =>
        /\ (ret.outcome # "Ok") <=> (arg.kind = "Failing")
        /\ arg.kind = "Failing" =>
               /\ ret.outcome = "panic"
               /\ ret.payload = arg.payload
               /\ rng = pre
        /\ arg.kind = "WyRand" =>
               \E d \in {next_u64(arg.self)} :
                   /\ other = [kind |-> "WyRand", self |-> d.self]
                   /\ ret.value = [seed |-> d.value]
                   /\ rng = ret.value

\* from_rng on a WyRand source in state 0: the new generator's state is the
\* source's first word and the source has taken one step
C7_Witness ==
    /\ op = "from_rng"
    /\ arg.kind = "WyRand"
    /\ arg.self.seed = <<0, 0, 0, 0>>
    /\ other.self.seed = WyAdd
    /\ rng.seed = <<42382, 36697, 45991, 4380>>

\* C8: try_fill_bytes returns Ok(()) for every state and buffer length, writes
\* the bytes fill_bytes writes and leaves the state fill_bytes leaves.
C8_TryFillBytes ==
    op = "try_fill_bytes" =>
        /\ ret = "Ok"
        /\ \E r \in {fill_bytes(pre, arg)} :
               /\ rng = r.self
               /\ dest = r.dest

\* a try_fill_bytes of 13 bytes that succeeded and advanced the generator
C8_Witness ==
    /\ op = "try_fill_bytes"
    /\ Len(arg) = 13
    /\ Len(dest) = 13
    /\ ret = "Ok"
    /\ rng # pre

\* C9: the Debug rendering is "WyRand" for every state, and rendering does not
\* change the state.
C9_DebugOpaque ==
    op = "fmt" =>
        /\ ret = <<"WyRand">>
        /\ rng = pre

\* a rendering of a generator that has produced output and holds a non-zero
\* state
C9_Witness ==
    /\ op = "fmt"
    /\ ret = <<"WyRand">>
    /\ k > 0
    /\ rng.seed # <<0, 0, 0, 0>>

\* C10: a generator created by seed_from_u64(s) that has produced k words is in
\* state (s + k * 0xa0761d6478bd642f) mod 2^64; with k = 0 it is s itself, and
\* rendering leaves the state alone.
C10_StateProgression ==
    /\ ctor = "seed_from_u64" =>
           /\ rng.seed = RefAdvance(seed0, k)
           /\ k = 0 => rng.seed = seed0
    /\ op = "fmt" => rng = pre

\* a generator seeded with 0 that has produced three words through a fill
C10_Witness ==
    /\ ctor = "seed_from_u64"
    /\ seed0 = <<0, 0, 0, 0>>
    /\ k = 3
    /\ op \in {"fill_bytes", "try_fill_bytes"}

====
